---- MODULE Spec2Model ----
(***************************************************************************)
(* Model of map_crawler's search service (backend/service.py) together     *)
(* with the storage boundary (backend/storage.py), the scraper boundary    *)
(* (backend/scraper.py) and the grid generator (utils.py).                 *)
(*                                                                         *)
(* Coordinates are integers in thousandths of a degree, so delta_lat       *)
(* (0.022 degrees) is 22.  A DataFrame is a record [rows, cols]: the set   *)
(* of its rows and whether it carries the required columns.  Blob keys     *)
(* (uuid4) are fresh integers.  Session threads sharing the one cached     *)
(* service object are the elements of Sessions.                            *)
(***************************************************************************)
EXTENDS Integers, Sequences, FiniteSets, TLC

\* ---------------------------------------------------------------- bounds
MaxSearches == 2      \* search_places calls started over the service life
MaxNewKeys == 2       \* crawls returning a non-empty result (keys generated)

\* ------------------------------------------------------- program constants
DeltaLat == 22        \* ScraperSettings.delta_lat = 0.022 degrees
CosClamp == 1         \* 1e-6, in millionths

Sessions == {1, 2}
NoKey == 0            \* a cache lookup that found nothing (None)

Abs(x) == IF x < 0 THEN -x ELSE x
Max(a, b) == IF a >= b THEN a ELSE b
Min(a, b) == IF a <= b THEN a ELSE b

\* ------------------------------------------------------ term normalisation
IsSpace(c) == c = " "
Lower(c) == IF c = "C" THEN "c" ELSE IF c = "B" THEN "b" ELSE c

RECURSIVE LStrip(_)
LStrip(t) == IF t # <<>> /\ IsSpace(Head(t)) THEN LStrip(Tail(t)) ELSE t

RECURSIVE RStrip(_)
RStrip(t) ==
    IF t # <<>> /\ IsSpace(t[Len(t)]) THEN RStrip(SubSeq(t, 1, Len(t) - 1)) ELSE t

Strip(t) == RStrip(LStrip(t))

\* term.strip().lower().replace(" ", "+")
NormalizeTerm(t) ==
    LET s == Strip(t)
    IN  [i \in 1..Len(s) |-> IF Lower(s[i]) = " " THEN "+" ELSE Lower(s[i])]

RawTerms == { <<"C">>, <<" ", "c">> }

\* ------------------------------------------------------------- geometry
\* cos(radians(lat)) in millionths, for the latitudes the model queries:
\* around the equator, around 70 degrees north, and the pole (90 degrees).
CosMicro(lat) ==
    IF Abs(lat) <= 1000 THEN 1000000
    ELSE IF Abs(lat - 70000) <= 1000 THEN 342020
    ELSE 0

\* delta_long = delta_lat / max(abs(cos_lat), 1e-6), rounded down: the
\* differences it is compared with are whole thousandths of a degree.
DeltaLong(lat) == (DeltaLat * 1000000) \div Max(Abs(CosMicro(lat)), CosClamp)

\* variant: the longitude offsets in the outer loop
GenerateLatLongGridLonOuter(center_lat, center_lon, lat_step, lon_step, grid_radius) ==
    LET w == Max(2 * grid_radius + 1, 0)
    IN  [n \in 1..(w * w) |->
            << center_lat + (((n - 1) % w) - grid_radius) * lat_step,
               center_lon + (((n - 1) \div w) - grid_radius) * lon_step >>]

\* The list comprehension over range(-grid_radius, grid_radius + 1) twice,
\* latitude offsets outside: element n (from 1) has outer index
\* (n - 1) div w and inner index (n - 1) mod w; an empty range gives [].
GenerateLatLongGrid(center_lat, center_lon, lat_step, lon_step, grid_radius) ==
    LET w == Max(2 * grid_radius + 1, 0)
    IN  [n \in 1..(w * w) |->
            << center_lat + (((n - 1) \div w) - grid_radius) * lat_step,
               center_lon + (((n - 1) % w) - grid_radius) * lon_step >>]

Centers == { <<22, -22>> }

\* --------------------------------------------------------------- storage
Places == { "p1" }

EmptyDF == [kind |-> "df", rows |-> {}, cols |-> FALSE]
DF(rows) == IF rows = {} THEN EmptyDF ELSE [kind |-> "df", rows |-> rows, cols |-> TRUE]
AbsentBlob == [kind |-> "absent", rows |-> {}, cols |-> FALSE]
CorruptBlob == [kind |-> "corrupt", rows |-> {}, cols |-> FALSE]
NoColsDF == [kind |-> "df", rows |-> {"p0"}, cols |-> FALSE]

\* What the result blob of an index entry found at startup may hold.
OldDF == DF({"p0"})
\* an empty result set read back from JSON keeps its columns
EmptyStoredDF == [kind |-> "df", rows |-> {}, cols |-> TRUE]
StoredBlobKinds == { OldDF, EmptyStoredDF, NoColsDF, CorruptBlob, AbsentBlob }

Entry(search, lat, lng, time, key) ==
    [Search |-> search, Latitude |-> lat, Longitude |-> lng, Time |-> time, Key |-> key]

E0 == Entry(<<"c">>, 0, 0, 0, 1)
E1 == Entry(<<"b">>, 70000, 64, 0, 2)
E2 == Entry(<<"b">>, 89990, 5000, 0, 3)
StoredEntries == <<E0, E1, E2>>

StoredIndex(state, entries) == [state |-> state, entries |-> entries]

\* What the constructor may find: the index blob in storage, whether its
\* download succeeds, and what the result blob of the first entry holds.
Startup(stored, download_ok, kind) ==
    [stored |-> stored, download_ok |-> download_ok, kind |-> kind]
Startups ==
    { Startup(StoredIndex("absent", <<>>), FALSE, AbsentBlob),
      Startup(StoredIndex("corrupt", <<>>), TRUE, AbsentBlob),
      Startup(StoredIndex("ok", StoredEntries), FALSE, OldDF) }
    \cup { Startup(StoredIndex("ok", StoredEntries), TRUE, kind) : kind \in StoredBlobKinds }

FirstNewKey == Len(StoredEntries) + 1
Keys == 1..(FirstNewKey + MaxNewKeys - 1)
KeysOf(index) == { index[i].Key : i \in 1..Len(index) }

VARIABLES
    settings,       \* the Settings object given to the constructor
    master_data,    \* self.master_data, the in-memory search index
    masterBlob,     \* the index blob in storage
    blobs,          \* the result blobs in storage, by key
    nextKey,        \* keys generated so far + 1
    started,        \* search_places calls started
    pc, query, center, force, idx, all_cached, results_list,
    lookup,         \* outcome of the cache attempt of the current tile
    df_results, new_key, read_index, json,
    ret,            \* last return value of _search_single_tile
    out,            \* last return value of search_places
    scrapes,        \* scraper.scrape calls made by the current search_places call
    progress,       \* last value given to progress_callback, in tenths of a tile
    stage,          \* how far the scraper.scrape call in progress has got
    fault,          \* last exception the browser raised in the current tile
    input,          \* argument of the pure function under study
    output,         \* its result
    cancel          \* whether the caller has asked for the search to stop

svars == << pc, query, center, force, idx, all_cached, results_list, lookup,
            df_results, new_key, read_index, json, ret, out, scrapes, progress >>
pure == << input, output >>
aux == << stage, fault, pure, cancel >>
vars == << settings, master_data, masterBlob, blobs, nextKey, started, svars, aux >>

\* ----------------------------------------------------------- pure helpers
\* AzureStorage.load_master_search_data: any failure gives an empty index.
LoadMasterSearchData(stored, download_ok) ==
    IF download_ok /\ stored.state = "ok" THEN stored.entries ELSE <<>>

Matches(e, search_query, lat, lng) ==
    /\ e.Search = search_query
    /\ Abs(e.Latitude - lat) <= DeltaLat
    /\ Abs(e.Longitude - lng) <= DeltaLong(lat)

\* variant: the last match instead of the first
FindCachedKeyLast(master, search_query, lat, lng) ==
    IF master = <<>> THEN NoKey
    ELSE LET mask(e) == Matches(e, search_query, lat, lng)
             matches == SelectSeq(master, mask)
         IN  IF matches # <<>> THEN matches[Len(matches)].Key ELSE NoKey

FindCachedKey(master, search_query, lat, lng) ==
    IF master = <<>> THEN NoKey
    ELSE LET mask(e) == Matches(e, search_query, lat, lng)
             matches == SelectSeq(master, mask)
         IN  IF matches # <<>> THEN matches[1].Key ELSE NoKey

\* variant: the emptiness test left out
ValidateDataframeNoEmptyCheck(df) == df.cols

ValidateDataframe(df) ==
    IF df.rows = {} THEN FALSE ELSE df.cols

\* variant: force_refresh ignored
UseCacheAlways(force_refresh) == TRUE

\* `if not force_refresh:` guards the whole cache attempt
UseCache(force_refresh) == ~force_refresh

\* variant: the emptiness guard left out
ShouldSaveAlways(df) == TRUE

\* `if not df_results.empty:` guards the save step
ShouldSave(df) == df.rows # {}

NumTiles(s) == (2 * settings.grid_radius + 1) * (2 * settings.grid_radius + 1)
Coords(s) ==
    GenerateLatLongGrid(center[s][1], center[s][2], DeltaLat,
                        DeltaLong(center[s][1]), settings.grid_radius)
TileLat(s) == Coords(s)[idx[s] + 1][1]
TileLng(s) == Coords(s)[idx[s] + 1][2]

\* variant: the tile's own fraction is passed on, without current_idx
TileProgressNoIndex(s, tenths) == Min(tenths, 10 * NumTiles(s))

\* tile_progress(p): progress_callback(min((current_idx + p) / num_tiles, 1.0))
TileProgress(s, tenths) == Min(idx[s] * 10 + tenths, 10 * NumTiles(s))

\* ------------------------------------------------------------------ Init
\* MapCrawlerService.__init__ on what storage holds; nothing is in progress.
ServiceInit(startups) ==
    /\ \E st \in startups :
        /\ masterBlob = st.stored
        /\ master_data = LoadMasterSearchData(st.stored, st.download_ok)
        /\ blobs = [k \in Keys |->
                      IF k = E0.Key /\ k \in KeysOf(st.stored.entries) THEN st.kind
                      ELSE IF k \in KeysOf(st.stored.entries) THEN OldDF
                      ELSE AbsentBlob]
    /\ nextKey = FirstNewKey
    /\ started = 0
    /\ pc = [s \in Sessions |-> "idle"]
    /\ query = [s \in Sessions |-> <<>>]
    /\ center = [s \in Sessions |-> <<0, 0>>]
    /\ force = [s \in Sessions |-> FALSE]
    /\ idx = [s \in Sessions |-> 0]
    /\ all_cached = [s \in Sessions |-> TRUE]
    /\ results_list = [s \in Sessions |-> <<>>]
    /\ lookup = [s \in Sessions |-> "none"]
    /\ df_results = [s \in Sessions |-> EmptyDF]
    /\ new_key = [s \in Sessions |-> NoKey]
    /\ read_index = [s \in Sessions |-> <<>>]
    /\ json = [s \in Sessions |-> <<>>]
    /\ ret = [s \in Sessions |-> [df |-> EmptyDF, cached |-> FALSE]]
    /\ out = [s \in Sessions |-> [df |-> EmptyDF, cached |-> FALSE]]
    /\ scrapes = [s \in Sessions |-> 0]
    /\ progress = [s \in Sessions |-> 0]
    /\ stage = [s \in Sessions |-> "none"]
    /\ fault = [s \in Sessions |-> "none"]
    /\ cancel = [s \in Sessions |-> FALSE]

\* no pure function is under study
NoPure == input = <<>> /\ output = <<>>

Init ==
    /\ settings \in { [has_grid_radius |-> FALSE, grid_radius |-> 0],
                      [has_grid_radius |-> TRUE, grid_radius |-> 0] }
    /\ ServiceInit(Startups)
    /\ NoPure

\* --------------------------------------------------------------- actions
shared == << settings, master_data, masterBlob, blobs, nextKey, started >>

\* search_places, lines 83-102: normalise the term, read grid_radius from
\* the settings (AttributeError when the settings carry none), build the grid.
SearchPlacesBegin(s) ==
    /\ pc[s] \in {"idle", "returned", "raised"}
    /\ started < MaxSearches
    /\ started' = started + 1
    /\ \E term \in RawTerms, c \in Centers, force_refresh \in BOOLEAN :
        /\ query' = [query EXCEPT ![s] = NormalizeTerm(term)]
        /\ center' = [center EXCEPT ![s] = c]
        /\ force' = [force EXCEPT ![s] = force_refresh]
    /\ pc' = [pc EXCEPT ![s] = IF settings.has_grid_radius THEN "tile" ELSE "raised"]
    /\ idx' = [idx EXCEPT ![s] = 0]
    /\ all_cached' = [all_cached EXCEPT ![s] = TRUE]
    /\ results_list' = [results_list EXCEPT ![s] = <<>>]
    /\ lookup' = [lookup EXCEPT ![s] = "none"]
    /\ scrapes' = [scrapes EXCEPT ![s] = 0]
    /\ progress' = [progress EXCEPT ![s] = 0]
    /\ UNCHANGED << settings, master_data, masterBlob, blobs, nextKey,
                    df_results, new_key, read_index, json, ret, out, aux >>

\* _search_single_tile returns (df, cached); the loop body of search_places
\* (lines 111-118) folds it into all_cached and results_list.
TileReturn(s, df, cached) ==
    /\ ret' = [ret EXCEPT ![s] = [df |-> df, cached |-> cached]]
    /\ all_cached' = [all_cached EXCEPT ![s] = IF ~cached THEN FALSE ELSE @]
    /\ results_list' = [results_list EXCEPT ![s] = IF df.rows # {} THEN Append(@, df) ELSE @]
    /\ idx' = [idx EXCEPT ![s] = @ + 1]
    /\ pc' = [pc EXCEPT ![s] = IF idx[s] + 1 < NumTiles(s) THEN "tile" ELSE "finish"]
    /\ new_key' = [new_key EXCEPT ![s] = NoKey]
    /\ read_index' = [read_index EXCEPT ![s] = <<>>]
    /\ json' = [json EXCEPT ![s] = <<>>]
    /\ fault' = [fault EXCEPT ![s] = "none"]

CachedKey(s) == FindCachedKey(master_data, query[s], TileLat(s), TileLng(s))

\* lines 159-161 and 175: forced refresh, or no matching entry
CacheMiss(s) ==
    /\ pc[s] = "tile"
    /\ ~UseCache(force[s]) \/ CachedKey(s) = NoKey
    /\ pc' = [pc EXCEPT ![s] = "scrape"]
    /\ lookup' = [lookup EXCEPT ![s] = IF UseCache(force[s]) THEN "miss" ELSE "forced"]
    /\ UNCHANGED << shared, query, center, force, idx, all_cached, results_list,
                    df_results, new_key, read_index, json, ret, out, scrapes, progress, aux >>

\* variant: the cache hit returns without reporting progress
CacheHitNoProgress(s) ==
    /\ pc[s] = "tile"
    /\ UseCache(force[s])
    /\ CachedKey(s) # NoKey
    /\ blobs[CachedKey(s)].kind = "df"
    /\ ValidateDataframe(blobs[CachedKey(s)])
    /\ lookup' = [lookup EXCEPT ![s] = "hit"]
    /\ TileReturn(s, blobs[CachedKey(s)], TRUE)
    /\ UNCHANGED << shared, query, center, force, df_results, out, scrapes, progress,
                    stage, pure, cancel >>

\* lines 161-168: the stored set loads and validates
CacheHit(s) ==
    /\ pc[s] = "tile"
    /\ UseCache(force[s])
    /\ CachedKey(s) # NoKey
    /\ blobs[CachedKey(s)].kind = "df"
    /\ ValidateDataframe(blobs[CachedKey(s)])
    /\ lookup' = [lookup EXCEPT ![s] = "hit"]
    /\ progress' = [progress EXCEPT ![s] = TileProgress(s, 10)]
    /\ TileReturn(s, blobs[CachedKey(s)], TRUE)
    /\ UNCHANGED << shared, query, center, force, df_results, out, scrapes, stage, pure, cancel >>

\* lines 165-171: the stored set loads but is empty or lacks a required column
CacheInvalid(s) ==
    /\ pc[s] = "tile"
    /\ UseCache(force[s])
    /\ CachedKey(s) # NoKey
    /\ blobs[CachedKey(s)].kind = "df"
    /\ ~ValidateDataframe(blobs[CachedKey(s)])
    /\ lookup' = [lookup EXCEPT ![s] = "invalid"]
    /\ pc' = [pc EXCEPT ![s] = "scrape"]
    /\ UNCHANGED << shared, query, center, force, idx, all_cached, results_list,
                    df_results, new_key, read_index, json, ret, out, scrapes, progress, aux >>

\* lines 172-173: download_blob or read_json raises: the blob is missing or
\* does not parse ("error"), or storage is unreachable ("unavailable")
CacheLoadError(s) ==
    /\ pc[s] = "tile"
    /\ UseCache(force[s])
    /\ CachedKey(s) # NoKey
    /\ \E unreachable \in BOOLEAN :
        /\ unreachable \/ blobs[CachedKey(s)].kind # "df"
        /\ lookup' = [lookup EXCEPT ![s] =
                         IF blobs[CachedKey(s)].kind # "df" THEN "error" ELSE "unavailable"]
    /\ pc' = [pc EXCEPT ![s] = "scrape"]
    /\ UNCHANGED << shared, query, center, force, idx, all_cached, results_list,
                    df_results, new_key, read_index, json, ret, out, scrapes, progress, aux >>

\* After scraper.scrape returned df (lines 184-188): save it, or return it.
AfterScrape(s, df) ==
    /\ df_results' = [df_results EXCEPT ![s] = df]
    /\ scrapes' = [scrapes EXCEPT ![s] = @ + 1]
    /\ stage' = [stage EXCEPT ![s] = "none"]
    /\ IF ShouldSave(df)
       THEN /\ pc' = [pc EXCEPT ![s] = "save_result"]
            /\ new_key' = [new_key EXCEPT ![s] = nextKey]
            /\ nextKey' = nextKey + 1
            /\ UNCHANGED << idx, all_cached, results_list, read_index, json, ret, fault >>
       ELSE /\ TileReturn(s, df, FALSE)
            /\ UNCHANGED nextKey

\* scraper.scrape ends early with an empty DataFrame: the browser raised
\* (after progress 0.1, 0.3 or 0.6) or no result container appeared (0.3).
ScrapeFail(s) ==
    /\ pc[s] = "scrape"
    /\ \E tenths \in {1, 3, 6} : progress' = [progress EXCEPT ![s] = TileProgress(s, tenths)]
    /\ AfterScrape(s, EmptyDF)
    /\ UNCHANGED << settings, master_data, masterBlob, blobs, started,
                    query, center, force, lookup, out, pure, cancel >>

\* scraper.scrape runs to the end: _process_results over the places parsed
ScrapeDone(s) ==
    /\ pc[s] = "scrape"
    /\ \E rows \in SUBSET Places :
        /\ rows # {} => nextKey < FirstNewKey + MaxNewKeys
        /\ AfterScrape(s, DF(rows))
    /\ progress' = [progress EXCEPT ![s] = TileProgress(s, 9)]
    /\ UNCHANGED << settings, master_data, masterBlob, blobs, started,
                    query, center, force, lookup, out, pure, cancel >>

NewEntry(s) == Entry(query[s], TileLat(s), TileLng(s), new_key[s], new_key[s])

\* lines 276-290 up to the read of self.master_data: upload the result blob
SaveUploadResult(s) ==
    /\ pc[s] = "save_result"
    /\ blobs' = [blobs EXCEPT ![new_key[s]] = df_results[s]]
    /\ read_index' = [read_index EXCEPT ![s] = master_data]
    /\ pc' = [pc EXCEPT ![s] = "save_append"]
    /\ UNCHANGED << settings, master_data, masterBlob, nextKey, started,
                    query, center, force, idx, all_cached, results_list, lookup,
                    df_results, new_key, json, ret, out, scrapes, progress, aux >>

\* variant: the failed result upload is only logged and the save goes on
SaveUploadResultFailAppends(s) ==
    /\ pc[s] = "save_result"
    /\ read_index' = [read_index EXCEPT ![s] = master_data]
    /\ pc' = [pc EXCEPT ![s] = "save_append"]
    /\ UNCHANGED << shared, query, center, force, idx, all_cached, results_list, lookup,
                    df_results, new_key, json, ret, out, scrapes, progress, aux >>

\* lines 276, 298-299: the result upload raises; logged and swallowed
SaveUploadResultFail(s) ==
    /\ pc[s] = "save_result"
    /\ TileReturn(s, df_results[s], FALSE)
    /\ UNCHANGED << shared, query, center, force, lookup, df_results, out, scrapes, progress,
                    stage, pure, cancel >>

\* line 290: self.master_data = pd.concat([<the index read>, new_row_df])
SaveAppend(s) ==
    /\ pc[s] = "save_append"
    /\ master_data' = Append(read_index[s], NewEntry(s))
    /\ pc' = [pc EXCEPT ![s] = "save_serialize"]
    /\ UNCHANGED << settings, masterBlob, blobs, nextKey, started,
                    query, center, force, idx, all_cached, results_list, lookup,
                    df_results, new_key, read_index, json, ret, out, scrapes, progress, aux >>

\* line 295, argument: self.master_data.to_json()
SaveSerialize(s) ==
    /\ pc[s] = "save_serialize"
    /\ json' = [json EXCEPT ![s] = master_data]
    /\ pc' = [pc EXCEPT ![s] = "save_index"]
    /\ UNCHANGED << shared, query, center, force, idx, all_cached, results_list, lookup,
                    df_results, new_key, read_index, ret, out, scrapes, progress, aux >>

\* lines 295-296: upload the index blob
SaveUploadIndex(s) ==
    /\ pc[s] = "save_index"
    /\ masterBlob' = StoredIndex("ok", json[s])
    /\ TileReturn(s, df_results[s], FALSE)
    /\ UNCHANGED << settings, master_data, blobs, nextKey, started,
                    query, center, force, lookup, df_results, out, scrapes, progress,
                    stage, pure, cancel >>

\* variant: the upload error is re-raised instead of swallowed
SaveUploadIndexFailRaises(s) ==
    /\ pc[s] = "save_index"
    /\ pc' = [pc EXCEPT ![s] = "raised"]
    /\ UNCHANGED << shared, query, center, force, idx, all_cached, results_list, lookup,
                    df_results, new_key, read_index, json, ret, out, scrapes, progress, aux >>

\* lines 295, 298-299: the index upload raises; logged and swallowed
SaveUploadIndexFail(s) ==
    /\ pc[s] = "save_index"
    /\ TileReturn(s, df_results[s], FALSE)
    /\ UNCHANGED << shared, query, center, force, lookup, df_results, out, scrapes, progress,
                    stage, pure, cancel >>

\* The locals of a finished call are gone.
ForgetLocals(s) ==
    /\ query' = [query EXCEPT ![s] = <<>>]
    /\ center' = [center EXCEPT ![s] = <<0, 0>>]
    /\ force' = [force EXCEPT ![s] = FALSE]
    /\ idx' = [idx EXCEPT ![s] = 0]
    /\ all_cached' = [all_cached EXCEPT ![s] = TRUE]
    /\ results_list' = [results_list EXCEPT ![s] = <<>>]
    /\ lookup' = [lookup EXCEPT ![s] = "none"]
    /\ df_results' = [df_results EXCEPT ![s] = EmptyDF]
    /\ ret' = [ret EXCEPT ![s] = [df |-> EmptyDF, cached |-> FALSE]]
    /\ scrapes' = [scrapes EXCEPT ![s] = 0]
    /\ progress' = [progress EXCEPT ![s] = 0]

\* lines 120-135: nothing found gives an empty DataFrame; otherwise the call
\* of scraper._process_results_dataframe, which GoogleMapsScraper does not
\* define, raises AttributeError.
SearchPlacesEnd(s) ==
    /\ pc[s] = "finish"
    /\ IF results_list[s] = <<>>
       THEN /\ out' = [out EXCEPT ![s] = [df |-> EmptyDF, cached |-> all_cached[s]]]
            /\ pc' = [pc EXCEPT ![s] = "returned"]
       ELSE /\ pc' = [pc EXCEPT ![s] = "raised"]
            /\ UNCHANGED out
    /\ ForgetLocals(s)
    /\ UNCHANGED << shared, new_key, read_index, json, aux >>

Next ==
    \E s \in Sessions :
        \/ SearchPlacesBegin(s)
        \/ CacheMiss(s)
        \/ CacheHit(s)
        \/ CacheInvalid(s)
        \/ CacheLoadError(s)
        \/ ScrapeFail(s)
        \/ ScrapeDone(s)
        \/ SaveUploadResult(s)
        \/ SaveUploadResultFail(s)
        \/ SaveAppend(s)
        \/ SaveSerialize(s)
        \/ SaveUploadIndex(s)
        \/ SaveUploadIndexFail(s)
        \/ SearchPlacesEnd(s)

Spec == Init /\ [][Next]_vars

TypeOK ==
    /\ pc \in [Sessions -> {"idle", "tile", "scrape", "save_result", "save_append",
                            "save_serialize", "save_index", "finish", "returned", "raised"}]
    /\ nextKey \in FirstNewKey..(FirstNewKey + MaxNewKeys)
    /\ started \in 0..MaxSearches

\* ------------------------------------------------- the crawl of one caller
\* The first search_places call on a fresh service: one caller, a 3 x 3
\* grid, and scraper.scrape taken one browser call at a time.  scrape touches no state of the service, so Spec above takes it as
\* one step (ScrapeFail, ScrapeDone); here each progress report and each
\* exception handler of scrape is a step of its own.
GridRadius == 1
CrawlSessions == {1}
CrawlStartups ==
    { Startup(StoredIndex("absent", <<>>), FALSE, AbsentBlob),
      Startup(StoredIndex("ok", StoredEntries), TRUE, OldDF),
      Startup(StoredIndex("ok", StoredEntries), TRUE, NoColsDF) }

\* lines 145-146: progress_callback(0.1)
ScrapeStart(s) ==
    /\ pc[s] = "scrape"
    /\ stage[s] = "none"
    /\ stage' = [stage EXCEPT ![s] = "started"]
    /\ progress' = [progress EXCEPT ![s] = TileProgress(s, 1)]
    /\ UNCHANGED << shared, pc, query, center, force, idx, all_cached, results_list, lookup,
                    df_results, new_key, read_index, json, ret, out, scrapes, fault, pure, cancel >>

\* lines 149-173: launch, new page, goto; a navigation timeout is logged and
\* the scrape goes on; progress_callback(0.3)
ScrapeNavigate(s) ==
    /\ pc[s] = "scrape"
    /\ stage[s] = "started"
    /\ \E timed_out \in BOOLEAN :
        fault' = [fault EXCEPT ![s] = IF timed_out THEN "nav_timeout" ELSE @]
    /\ stage' = [stage EXCEPT ![s] = "navigated"]
    /\ progress' = [progress EXCEPT ![s] = TileProgress(s, 3)]
    /\ UNCHANGED << shared, pc, query, center, force, idx, all_cached, results_list, lookup,
                    df_results, new_key, read_index, json, ret, out, scrapes, pure, cancel >>

\* lines 176-178: the click on 'Accept all'; whatever it raises is suppressed
ScrapeConsent(s) ==
    /\ pc[s] = "scrape"
    /\ stage[s] = "navigated"
    /\ \E raised \in BOOLEAN :
        fault' = [fault EXCEPT ![s] = IF raised THEN "click" ELSE @]
    /\ stage' = [stage EXCEPT ![s] = "consented"]
    /\ UNCHANGED << shared, pc, query, center, force, idx, all_cached, results_list, lookup,
                    df_results, new_key, read_index, json, ret, out, scrapes, progress, pure, cancel >>

\* lines 181-190: wait_for_selector; on its timeout the browser is closed
\* and an empty DataFrame is returned
ScrapeWait(s) ==
    /\ pc[s] = "scrape"
    /\ stage[s] = "consented"
    /\ \E found \in BOOLEAN :
        /\ stage' = [stage EXCEPT ![s] = IF found THEN "loaded" ELSE "caught"]
        /\ fault' = [fault EXCEPT ![s] = IF found THEN @ ELSE "no_container"]
    /\ UNCHANGED << shared, pc, query, center, force, idx, all_cached, results_list, lookup,
                    df_results, new_key, read_index, json, ret, out, scrapes, progress, pure, cancel >>

\* lines 193-196 and _scroll_results (237-265), which logs and swallows
\* whatever the page raises; progress_callback(0.6)
ScrapeScroll(s) ==
    /\ pc[s] = "scrape"
    /\ stage[s] = "loaded"
    /\ \E raised \in BOOLEAN :
        fault' = [fault EXCEPT ![s] = IF raised THEN "scroll" ELSE @]
    /\ stage' = [stage EXCEPT ![s] = "scrolled"]
    /\ progress' = [progress EXCEPT ![s] = TileProgress(s, 6)]
    /\ UNCHANGED << shared, pc, query, center, force, idx, all_cached, results_list, lookup,
                    df_results, new_key, read_index, json, ret, out, scrapes, pure, cancel >>

\* lines 199-212: list the entries and extract each; an entry whose
\* extraction raises is logged and left out; close; progress_callback(0.9)
ScrapeExtract(s) ==
    /\ pc[s] = "scrape"
    /\ stage[s] = "scrolled"
    /\ \E raised \in BOOLEAN :
        fault' = [fault EXCEPT ![s] = IF raised THEN "entry" ELSE @]
    /\ stage' = [stage EXCEPT ![s] = "extracted"]
    /\ progress' = [progress EXCEPT ![s] = TileProgress(s, 9)]
    /\ UNCHANGED << shared, pc, query, center, force, idx, all_cached, results_list, lookup,
                    df_results, new_key, read_index, json, ret, out, scrapes, pure, cancel >>

\* Any other exception inside the outer try (lines 148-218): launching the
\* browser or a goto error other than a timeout, wait_for_selector failing
\* otherwise than by timeout, listing the entries or closing the browser.
ScrapeRaise(s) ==
    /\ pc[s] = "scrape"
    /\ stage[s] \in {"started", "consented", "scrolled"}
    /\ stage' = [stage EXCEPT ![s] = "caught"]
    /\ fault' = [fault EXCEPT ![s] = "error"]
    /\ UNCHANGED << shared, pc, query, center, force, idx, all_cached, results_list, lookup,
                    df_results, new_key, read_index, json, ret, out, scrapes, progress, pure, cancel >>

\* variant: the handler lets the exception through
ScrapeResultReraise(s, rows) == [raises |-> stage[s] = "caught", df |-> DF(rows)]

\* lines 190, 218 and 221: `return pd.DataFrame()` in the two handlers,
\* `return self._process_results(places, lat, lng)` at the end
ScrapeResult(s, rows) ==
    [raises |-> FALSE, df |-> IF stage[s] = "caught" THEN EmptyDF ELSE DF(rows)]

ScrapeReturn(s) ==
    /\ pc[s] = "scrape"
    /\ stage[s] \in {"caught", "extracted"}
    /\ \E rows \in SUBSET Places :
        /\ stage[s] = "caught" => rows = {}
        /\ rows # {} => nextKey < FirstNewKey + MaxNewKeys
        /\ IF ScrapeResult(s, rows).raises
           THEN /\ pc' = [pc EXCEPT ![s] = "raised"]
                /\ UNCHANGED << nextKey, idx, all_cached, results_list, df_results,
                                new_key, read_index, json, ret, scrapes, stage, fault >>
           ELSE AfterScrape(s, ScrapeResult(s, rows).df)
    /\ UNCHANGED << settings, master_data, masterBlob, blobs, started,
                    query, center, force, lookup, out, progress, pure, cancel >>

CrawlInit ==
    /\ settings = [has_grid_radius |-> TRUE, grid_radius |-> GridRadius]
    /\ ServiceInit(CrawlStartups)
    /\ NoPure

CrawlNext ==
    \E s \in CrawlSessions :
        \/ started = 0 /\ SearchPlacesBegin(s)
        \/ CacheMiss(s)
        \/ CacheHit(s)
        \/ CacheInvalid(s)
        \/ CacheLoadError(s)
        \/ ScrapeStart(s)
        \/ ScrapeNavigate(s)
        \/ ScrapeConsent(s)
        \/ ScrapeWait(s)
        \/ ScrapeScroll(s)
        \/ ScrapeExtract(s)
        \/ ScrapeRaise(s)
        \/ ScrapeReturn(s)
        \/ SaveUploadResult(s)
        \/ SaveUploadResultFail(s)
        \/ SaveAppend(s)
        \/ SaveSerialize(s)
        \/ SaveUploadIndex(s)
        \/ SaveUploadIndexFail(s)
        \/ SearchPlacesEnd(s)

CrawlSpec == CrawlInit /\ [][CrawlNext]_vars

\* ------------------------------------------------ a request to stop
\* The caller asks for the search in progress to stop.  search_places takes
\* no cancellation signal (its parameters, lines 59-66, are term, lat, lng,
\* force_refresh and progress_callback) and the loop of lines 104-118 tests
\* nothing between two tiles: the request changes nothing the call reads.
RequestCancel(s) ==
    /\ pc[s] \notin {"idle", "returned", "raised"}
    /\ ~cancel[s]
    /\ cancel' = [cancel EXCEPT ![s] = TRUE]
    /\ UNCHANGED << shared, svars, stage, fault, pure >>

CancelNext ==
    \E s \in CrawlSessions :
        \/ started = 0 /\ SearchPlacesBegin(s)
        \/ CacheMiss(s)
        \/ CacheHit(s)
        \/ CacheInvalid(s)
        \/ CacheLoadError(s)
        \/ ScrapeFail(s)
        \/ ScrapeDone(s)
        \/ SaveUploadResult(s)
        \/ SaveUploadResultFail(s)
        \/ SaveAppend(s)
        \/ SaveSerialize(s)
        \/ SaveUploadIndex(s)
        \/ SaveUploadIndexFail(s)
        \/ SearchPlacesEnd(s)
        \/ RequestCancel(s)

CancelSpec == CrawlInit /\ [][CancelNext]_vars

\* -------------------------------------------------- the pure functions
\* Each is studied in a specification of its own: the argument is drawn in
\* the initial state and the calls append their results to output; the
\* service is built on empty storage and takes no step.
MaxCalls == 2

Parked ==
    /\ settings = [has_grid_radius |-> FALSE, grid_radius |-> 0]
    /\ ServiceInit({ Startup(StoredIndex("absent", <<>>), FALSE, AbsentBlob) })

Call(result) ==
    /\ Len(output) < MaxCalls
    /\ output' = Append(output, result)
    /\ UNCHANGED << shared, svars, stage, fault, input, cancel >>

\* generate_lat_long_grid
MaxGridRadius == 2
GridInputs ==
    [center_lat : {22, -70000}, center_lon : {-22, 5000},
     lat_step : {22, 0, -1}, lon_step : {22, 64, 0},
     grid_radius : (-1)..MaxGridRadius]

GridInit == Parked /\ input \in GridInputs /\ output = <<>>

GridCall ==
    Call(GenerateLatLongGrid(input.center_lat, input.center_lon,
                             input.lat_step, input.lon_step, input.grid_radius))

GridNext == GridCall

GridSpec == GridInit /\ [][GridNext]_vars

\* _process_results.  A Place is a record; rating is in tenths of a star,
\* coordinates in thousandths of a degree, price is NoPrice for None.
\* Floats are fixed-point integers, rounded down: scaled_rating in 1e-4
\* stars, vfm and composite in thousandths.  dist and scaled_dist_rating
\* enter neither vfm nor composite and are left out.
MaxPlaces == 3
NoPrice == -1
NaN == -1             \* a quotient by 0 (inf or nan; the model does not tell them apart)

Place(description, rating, raters, latitude, longitude, price, review_url) ==
    [description |-> description, rating |-> rating, raters |-> raters,
     latitude |-> latitude, longitude |-> longitude, price |-> price,
     review_url |-> review_url]

\* 1000 * 1.25 ^ (-sqrt(raters)), rounded, for the rater counts in use
RatersDomain == {0, 1, 2, 3, 4, 9, 16, 100, 400, 1200}
PenaltyMilli(raters) ==
    CASE raters = 0 -> 1000
      [] raters = 1 -> 800
      [] raters = 2 -> 729
      [] raters = 3 -> 679
      [] raters = 4 -> 640
      [] raters = 9 -> 512
      [] raters = 16 -> 410
      [] raters = 100 -> 107
      [] raters = 400 -> 12
      [] OTHER -> 0

\* variant: the penalty grows with the number of raters
ScaledRatingInverted(rating, raters) == rating * PenaltyMilli(raters)

\* df["rating"] * (1 - np.power(1.25, -1 * np.sqrt(df["raters"])))
ScaledRating(rating, raters) == rating * (1000 - PenaltyMilli(raters))

RECURSIVE ISqrtBetween(_, _, _)
ISqrtBetween(n, lo, hi) ==
    IF lo >= hi THEN lo
    ELSE LET mid == (lo + hi + 1) \div 2
         IN  IF mid * mid <= n THEN ISqrtBetween(n, mid, hi)
             ELSE ISqrtBetween(n, lo, mid - 1)
\* np.sqrt on a non-negative number, rounded down
ISqrt(n) == ISqrtBetween(n, 0, 46340)

\* float division of non-negative numbers: x / 0 raises nothing
FDiv(a, b) == IF b = 0 THEN NaN ELSE a \div b

\* twice Series.median(): the middle value, or the mean of the two middle ones
KthSmallest(xs, k) ==
    CHOOSE v \in { xs[i] : i \in 1..Len(xs) } :
        /\ Cardinality({ i \in 1..Len(xs) : xs[i] < v }) < k
        /\ Cardinality({ i \in 1..Len(xs) : xs[i] <= v }) >= k
Median2(xs) ==
    IF Len(xs) % 2 = 1 THEN 2 * KthSmallest(xs, (Len(xs) + 1) \div 2)
    ELSE KthSmallest(xs, Len(xs) \div 2) + KthSmallest(xs, Len(xs) \div 2 + 1)

DedupKey(p) == << p.description, p.rating, p.raters, p.latitude, p.longitude >>

\* variant: records of one name collapse
DropDuplicatesByName(df) ==
    LET first(i) == \A j \in 1..(i - 1) : df[j].description # df[i].description
        F[i \in 0..Len(df)] ==
            IF i = 0 THEN <<>> ELSE IF first(i) THEN Append(F[i - 1], df[i]) ELSE F[i - 1]
    IN  F[Len(df)]

\* df.drop_duplicates(subset=[description, rating, raters, latitude,
\* longitude]): the first record of each key stays, in order
DropDuplicates(df) ==
    LET first(i) == \A j \in 1..(i - 1) : DedupKey(df[j]) # DedupKey(df[i])
        F[i \in 0..Len(df)] ==
            IF i = 0 THEN <<>> ELSE IF first(i) THEN Append(F[i - 1], df[i]) ELSE F[i - 1]
    IN  F[Len(df)]

\* variant: `x if x >= 0 else 1`, a price of 0 is kept
NormalizePriceKeepZero(price) ==
    IF price = NoPrice THEN 1 ELSE IF price >= 0 THEN price ELSE 1

\* df["price"].fillna(1).astype(int), then x if x > 0 else 1
NormalizePrice(price) == IF price = NoPrice THEN 1 ELSE IF price > 0 THEN price ELSE 1

\* variant: the medians are not tested
MediansPositiveUntested(median_scaled_rating, median_price) == TRUE

\* `if median_scaled_rating > 0 and median_price > 0:`
MediansPositive(median_scaled_rating, median_price) ==
    median_scaled_rating > 0 /\ median_price > 0

ProcessResults(places) ==
    IF places = <<>> THEN <<>>
    ELSE
    LET df == DropDuplicates(places)
        sr(p) == ScaledRating(p.rating, p.raters)
        pr(p) == NormalizePrice(p.price)
        median_scaled_rating == Median2([i \in 1..Len(df) |-> sr(df[i])])
        median_price == Median2([i \in 1..Len(df) |-> pr(df[i])])
        scored == MediansPositive(median_scaled_rating, median_price)
        \* relative_rating = scaled_rating / median_scaled_rating
        rel(p) == FDiv(2 * sr(p) * 1000, median_scaled_rating)
        \* relative_price_inverse = sqrt(median_price) / sqrt(price)
        rpi(p) == IF pr(p) = 0 THEN NaN ELSE ISqrt(FDiv(median_price * 500000, pr(p)))
        vfmOf(p) ==
            IF ~scored THEN 0
            ELSE IF rel(p) = NaN \/ rpi(p) = NaN THEN NaN
            ELSE (rel(p) * rpi(p)) \div 1000
        median_vfm == IF scored THEN Median2([i \in 1..Len(df) |-> vfmOf(df[i])]) ELSE 0
        \* composite = relative_rating * sqrt(vfm) / sqrt(median_vfm)
        compositeOf(p) ==
            IF ~(scored /\ median_vfm > 0) THEN 0
            ELSE IF vfmOf(p) = NaN THEN NaN
            ELSE (rel(p) * ISqrt(FDiv(2 * vfmOf(p) * 100, median_vfm))) \div 10
    IN  [i \in 1..Len(df) |->
            [description |-> df[i].description, rating |-> df[i].rating,
             raters |-> df[i].raters, latitude |-> df[i].latitude,
             longitude |-> df[i].longitude, review_url |-> df[i].review_url,
             scaled_rating |-> sr(df[i]), price |-> pr(df[i]),
             vfm |-> vfmOf(df[i]), composite |-> compositeOf(df[i])]]

\* The places the scorer is tried on: one place, a second sighting of it
\* with another price and link, five places differing from it in one key
\* field each, and places without raters, rating or price.
PlacePool ==
    { Place("a", 45, 100, 22, -22, 4, "u1"),
      Place("a", 45, 100, 22, -22, NoPrice, "u2"),
      Place("b", 45, 100, 22, -22, 4, "u1"),
      Place("a", 50, 100, 22, -22, 4, "u1"),
      Place("a", 45, 4, 22, -22, 4, "u1"),
      Place("a", 45, 100, 23, -22, 4, "u1"),
      Place("a", 45, 100, 22, -21, 4, "u1"),
      Place("z", 50, 0, 0, 0, 0, "u3"),
      Place("n", 0, 0, 0, 0, NoPrice, "u3"),
      Place("e", 30, 1, 0, 0, 100, "u3") }

\* two places alike but for their number of raters
RaterPairs ==
    { << Place("a", rating, r1, 0, 0, 1, "u1"), Place("b", rating, r2, 0, 0, 1, "u1") >> :
        rating \in {0, 1, 45, 50}, r1 \in RatersDomain, r2 \in RatersDomain }

SeqsUpTo(S, n) == UNION { [1..k -> S] : k \in 0..n }

ScorerInit ==
    /\ Parked
    /\ input \in SeqsUpTo(PlacePool, MaxPlaces) \cup RaterPairs
    /\ output = <<>>

ScorerCall == Call(ProcessResults(input))

ScorerNext == ScorerCall

ScorerSpec == ScorerInit /\ [][ScorerNext]_vars

\* _extract_place_data.  Texts are sequences of characters; three literals
\* of the patterns are one symbol each: "S" is the word stars, "A" is !3d
\* and "B" is !4d.  "N" is a line break, "$" a currency sign.
Digits == {"0", "1", "2", "3", "4", "5", "6", "7", "8", "9"}
DigitVal(c) ==
    CASE c = "0" -> 0 [] c = "1" -> 1 [] c = "2" -> 2 [] c = "3" -> 3 [] c = "4" -> 4
      [] c = "5" -> 5 [] c = "6" -> 6 [] c = "7" -> 7 [] c = "8" -> 8 [] OTHER -> 9

\* int() and the digits of float(), on a string of digits
RECURSIVE ParseInt(_)
ParseInt(s) ==
    IF s = <<>> THEN 0
    ELSE 10 * ParseInt(SubSeq(s, 1, Len(s) - 1)) + DigitVal(s[Len(s)])

Without(s, c) == SelectSeq(s, LAMBDA x : x # c)
Only(s, C) == SelectSeq(s, LAMBDA x : x \in C)

\* the last place of the longest run of characters of C that starts at i
RECURSIVE RunEnd(_, _, _)
RunEnd(s, i, C) ==
    IF i + 1 <= Len(s) /\ s[i + 1] \in C THEN RunEnd(s, i + 1, C) ELSE i

\* float() on a match of [\d\.-]+, in thousandths: an optional sign, digits
\* with at most one point, at least one digit; anything else is a ValueError
ParseFloat(s) ==
    LET body == IF s # <<>> /\ s[1] = "-" THEN Tail(s) ELSE s
        points == { i \in 1..Len(body) : body[i] = "." }
        ok == /\ \A i \in 1..Len(body) : body[i] \in Digits \cup {"."}
              /\ Cardinality(points) <= 1
              /\ Only(body, Digits) # <<>>
        dot == IF points = {} THEN Len(body) + 1 ELSE CHOOSE i \in points : TRUE
        whole == SubSeq(body, 1, dot - 1)
        frac == SubSeq(SubSeq(body, dot + 1, Len(body)) \o << "0", "0", "0" >>, 1, 3)
        magnitude == ParseInt(whole) * 1000 + ParseInt(frac)
    IN  [ok |-> ok,
         val |-> IF ~ok THEN 0 ELSE IF body # s THEN -magnitude ELSE magnitude]

\* _RATING_PATTERN.search: (\d\.\d)\s*(?:\(|stars).*?([\d,]+); the leftmost
\* match, the count being the first run of digits and commas after the
\* bracket on the same line
CountChars == Digits \cup {","}
RatingOpen(s, i) ==
    LET k == IF i + 3 <= Len(s) /\ s[i + 3] = " " THEN RunEnd(s, i + 3, {" "}) + 1 ELSE i + 3
    IN  IF k <= Len(s) /\ s[k] \in {"(", "S"} THEN k ELSE 0
RatingCountAt(s, k) ==
    { m \in (k + 1)..Len(s) :
        s[m] \in CountChars /\ \A n \in (k + 1)..(m - 1) : s[n] # "N" }
RatingStarts(s) ==
    { i \in 1..(Len(s) - 2) :
        /\ s[i] \in Digits /\ s[i + 1] = "." /\ s[i + 2] \in Digits
        /\ RatingOpen(s, i) # 0
        /\ RatingCountAt(s, RatingOpen(s, i)) # {} }
SetMin(S) == CHOOSE x \in S : \A y \in S : x <= y

\* lines 309-319: rating is assigned before int() can raise ValueError
ParseRating(s) ==
    IF RatingStarts(s) = {} THEN [rating |-> 0, raters |-> 0]
    ELSE LET i == SetMin(RatingStarts(s))
             m == SetMin(RatingCountAt(s, RatingOpen(s, i)))
             count == Without(SubSeq(s, m, RunEnd(s, m, CountChars)), ",")
         IN  [rating |-> 10 * DigitVal(s[i]) + DigitVal(s[i + 2]),
              raters |-> IF count = <<>> THEN 0 ELSE ParseInt(count)]

\* lines 322-329: _PRICE_PATTERN ([$]\s?[\d,]+) and _parse_price, `or 0`
PriceStarts(s) ==
    { i \in 1..Len(s) :
        /\ s[i] = "$"
        /\ \/ i + 1 <= Len(s) /\ s[i + 1] \in CountChars
           \/ i + 2 <= Len(s) /\ s[i + 1] = " " /\ s[i + 2] \in CountChars }
ParsePrice(s) ==
    IF PriceStarts(s) = {} THEN 0
    ELSE LET i == SetMin(PriceStarts(s))
             m == IF s[i + 1] = " " THEN i + 2 ELSE i + 1
         IN  ParseInt(Only(SubSeq(s, m, RunEnd(s, m, CountChars)), Digits))

\* _COORDS_PATTERN.search: !3d([\d\.-]+)!4d([\d\.-]+), the leftmost match
CoordChars == Digits \cup {".", "-"}
CoordsStarts(s) ==
    { i \in 1..Len(s) :
        /\ s[i] = "A"
        /\ i + 1 <= Len(s) /\ s[i + 1] \in CoordChars
        /\ LET j == RunEnd(s, i + 1, CoordChars)
           IN  j + 2 <= Len(s) /\ s[j + 1] = "B" /\ s[j + 2] \in CoordChars }
CoordsGroups(s) ==
    LET i == SetMin(CoordsStarts(s))
        j == RunEnd(s, i + 1, CoordChars)
    IN  << SubSeq(s, i + 1, j), SubSeq(s, j + 2, RunEnd(s, j + 2, CoordChars)) >>

\* lines 332-341: item_lat is assigned before the second float() can raise
ParseCoords(href, default_lat, default_lng) ==
    IF ~href.present \/ href.chars = <<>> \/ CoordsStarts(href.chars) = {}
    THEN << default_lat, default_lng >>
    ELSE LET g == CoordsGroups(href.chars)
         IN  IF ~ParseFloat(g[1]).ok THEN << default_lat, default_lng >>
             ELSE IF ~ParseFloat(g[2]).ok THEN << ParseFloat(g[1]).val, default_lng >>
             ELSE << ParseFloat(g[1]).val, ParseFloat(g[2]).val >>

\* the Field constraints of Place (models.py): a violation raises
\* ValidationError from the constructor
PlaceValid(p) ==
    /\ p.rating >= 0 /\ p.rating <= 50
    /\ p.raters >= 0
    /\ p.latitude >= -90000 /\ p.latitude <= 90000
    /\ p.longitude >= -180000 /\ p.longitude <= 180000

\* The result is <<>> for None and << place >> for a Place.
ExtractPlaceData(entry, default_lat, default_lng) ==
    IF ~entry.label.present \/ entry.label.chars = <<>> THEN <<>>
    ELSE IF entry.text_raises THEN <<>>
    ELSE LET rr == ParseRating(entry.text)
             ll == ParseCoords(entry.href, default_lat, default_lng)
             place == Place(entry.label.chars, rr.rating, rr.raters, ll[1], ll[2],
                            ParsePrice(entry.text), entry.href)
         IN  IF PlaceValid(place) THEN << place >> ELSE <<>>

Str(chars) == [present |-> TRUE, chars |-> chars]
None == [present |-> FALSE, chars |-> <<>>]

\* aria-label, href and inner text of the entries tried
Labels == { None, Str(<<>>), Str(<< "C", "a", "f", "e" >>) }
Hrefs ==
    { None, Str(<<>>), Str(<< "x" >>),
      Str(<< "x", "A", "1", "2", ".", "5", "B", "-", "7", ".", "2", "5", "x" >>),
      Str(<< "A", "1", "2", ".", "5", "B", "7", ".", "2", ".", "5" >>),
      Str(<< "A", "1", "-", "2", "B", "7", ".", "5" >>),
      Str(<< "A", "9", "5", ".", "0", "B", "7", ".", "5" >>),
      Str(<< "A", "1", "2", ".", "5", "x", "B", "7", ".", "5" >>) }
Texts ==
    { <<>>, << "x" >>,
      << "4", ".", "5", "(", "1", ",", "2", "0", "0", ")", " ", "$", "1", ",", "5", "0", "0" >>,
      << "4", ".", "2", " ", "S", " ", "5", "0", "0", " ", "x" >>,
      << "4", ".", "5", "(", ",", ")" >>,
      << "9", ".", "9", "(", "3", ")" >>,
      << "4", ".", "5", "(", "x", "N", "7", ")", "$", " ", "," >>,
      << "x", "4", ".", "5", "$", "2", "0" >> }
Defaults == { << 22, -22 >>, << -70000, 5000 >> }

ExtractInputs ==
    [entry : [label : Labels, href : Hrefs, text : Texts, text_raises : BOOLEAN],
     default : Defaults]

ExtractInit == Parked /\ input \in ExtractInputs /\ output = <<>>

ExtractCall == Call(ExtractPlaceData(input.entry, input.default[1], input.default[2]))

ExtractNext == ExtractCall

ExtractSpec == ExtractInit /\ [][ExtractNext]_vars

\* search_places, line 83: the normalisation of the term, on terms of up to
\* MaxTermLen characters
MaxTermLen == 4
TermChars == {"C", "c", " "}
TermInputs == UNION { [1..n -> TermChars] : n \in 0..MaxTermLen }

NormalizeInit == Parked /\ input \in TermInputs /\ output = <<>>

NormalizeCall == Call(NormalizeTerm(input))

NormalizeNext == NormalizeCall

NormalizeSpec == NormalizeInit /\ [][NormalizeNext]_vars

\* ================================================================ claims
SavePcs == {"save_result", "save_append", "save_serialize", "save_index"}
InSave(s) == pc[s] \in SavePcs
NoSaveInProgress == \A s \in Sessions : ~InSave(s)
\* keys generated by this service whose result blob is in storage
StoredNewKeys == { k \in FirstNewKey..(nextKey - 1) : blobs[k].kind = "df" }
IsPrefix(a, b) == Len(a) <= Len(b) /\ SubSeq(b, 1, Len(a)) = a
Last(q) == q[Len(q)]

\* C1: once a crawl of this service has stored a result set and appended its
\* index entry, a later unforced tile search with the same term and a
\* location within tolerance of that entry is served from the cache and does
\* not call the scraper, as long as storage is reachable.
C1_CacheRoundTrip ==
    [][\A s \in Sessions :
          ( /\ pc[s] = "tile"
            /\ pc'[s] # "tile"
            /\ ~force[s]
            /\ \E i \in 1..Len(master_data) :
                  /\ master_data[i].Key >= FirstNewKey
                  /\ blobs[master_data[i].Key].kind = "df"
                  /\ Matches(master_data[i], query[s], TileLat(s), TileLng(s))
            /\ lookup'[s] # "unavailable" )
          => ( /\ lookup'[s] = "hit"
               /\ ret'[s].cached
               /\ scrapes'[s] = scrapes[s]
               /\ pc'[s] # "scrape" )]_vars

\* C2: a search with force_refresh never attempts the cache: every tile it
\* has processed was scraped, no tile returned cached = TRUE, and the flag
\* it is about to report is FALSE.
C2_ForceRefreshNeverCached ==
    \A s \in Sessions :
        force[s] =>
            /\ lookup[s] \in {"none", "forced"}
            /\ scrapes[s] = idx[s] + (IF InSave(s) THEN 1 ELSE 0)
            /\ idx[s] > 0 => (~ret[s].cached /\ ~all_cached[s])
            /\ pc[s] = "finish" => ~all_cached[s]

\* C2 witness: a forced tile goes to the scraper although the index holds a
\* matching entry whose stored set is valid.
C2_Witness ==
    \E s \in Sessions :
        /\ force[s]
        /\ pc[s] = "scrape"
        /\ lookup[s] = "forced"
        /\ CachedKey(s) # NoKey
        /\ blobs[CachedKey(s)] = OldDF

\* C3: when the matching entry's result set does not load, or loads empty or
\* without a required column, the tile search does not raise: it scrapes and
\* returns the scraped frame with cached = FALSE; a frame returned as cached
\* is never empty and never lacks the required columns.
C3_BadCacheFallsThrough ==
    \A s \in Sessions :
        /\ lookup[s] \in {"invalid", "error", "unavailable"} =>
              /\ pc[s] \in {"scrape", "tile", "finish"} \cup SavePcs
              /\ pc[s] \in {"tile", "finish"} =>
                    /\ ret[s] = [df |-> df_results[s], cached |-> FALSE]
                    /\ scrapes[s] >= 1
        /\ ret[s].cached => (ret[s].df.rows # {} /\ ret[s].df.cols)

\* C3 witness: a tile whose cached set failed to load or validate has
\* returned freshly scraped rows.
C3_Witness ==
    \E s \in Sessions :
        /\ pc[s] = "finish"
        /\ lookup[s] \in {"invalid", "error"}
        /\ ret[s].df.rows # {}
        /\ ~ret[s].cached

\* C4: every way out of the save step, a failed result upload and a failed
\* index upload included, returns exactly the scraped frame with
\* cached = FALSE to the tile loop; none raises.
C4_SaveFailureSwallowed ==
    [][\A s \in Sessions :
          (InSave(s) /\ pc'[s] \notin SavePcs) =>
              /\ pc'[s] \in {"tile", "finish"}
              /\ ret'[s] = [df |-> df_results[s], cached |-> FALSE]
              /\ df_results[s].rows # {}]_vars

\* C4 witness: the index upload failed (the new entry is in memory, not in
\* the stored index) and the tile search has returned the scraped rows.
C4_Witness ==
    \E s \in Sessions :
        /\ pc[s] = "finish"
        /\ ret[s].df.rows # {}
        /\ ~ret[s].cached
        /\ nextKey = FirstNewKey + 1
        /\ FirstNewKey \in KeysOf(master_data)
        /\ FirstNewKey \notin KeysOf(masterBlob.entries)

\* C5: no lost update: whenever no save step is in progress, every entry
\* whose result blob was stored is in the in-memory index, and an index
\* upload that has just succeeded leaves all of them in the stored index.
C5_NoLostUpdate ==
    [][NoSaveInProgress' =>
          /\ StoredNewKeys' \subseteq KeysOf(master_data')
          /\ masterBlob' # masterBlob =>
                StoredNewKeys' \subseteq KeysOf(masterBlob'.entries)]_vars

\* C6: the in-memory index is append-only: each step leaves it unchanged or
\* extends it by exactly one entry at the end.
C6_AppendOnly ==
    [][\/ master_data' = master_data
       \/ /\ Len(master_data') = Len(master_data) + 1
          /\ IsPrefix(master_data, master_data')]_vars

\* C7: every append is written back: when a save step that appended an
\* entry ends and no save step is in progress any more, the stored index
\* holds exactly the entries of the in-memory index.
C7_IndexWrittenBack ==
    [][\A s \in Sessions :
          (pc[s] = "save_index" /\ pc'[s] # "save_index" /\ NoSaveInProgress')
              => masterBlob'.entries = master_data']_vars

\* C8: on every index a tile search looks up, _find_cached_key returns the
\* key of the first entry in index order whose term equals the query term
\* and whose latitude and longitude are within delta_lat and
\* delta_lat / max(|cos lat|, 1e-6) of the query (inclusive), and no key
\* exactly when there is no such entry.
QueryTerms == { <<"c">>, <<"b">> }
QueryPoints ==
    Centers \cup { <<0, 0>>, <<0, 23>>, <<23, 0>>, <<-22, 22>>, <<44, -22>>,
                   <<70000, 0>>, <<70000, -1>>, <<90000, -9000>> }
WithinTolerance(e, q, lat, lng) ==
    /\ e.Search = q
    /\ Abs(e.Latitude - lat) <= DeltaLat
    /\ Abs(e.Longitude - lng) * Max(Abs(CosMicro(lat)), CosClamp) <= DeltaLat * 1000000
C8_FirstMatchWins ==
    (\E s \in Sessions : pc[s] = "tile") =>
        \A q \in QueryTerms, p \in QueryPoints :
            LET k == FindCachedKey(master_data, q, p[1], p[2])
                M == { i \in 1..Len(master_data) :
                         WithinTolerance(master_data[i], q, p[1], p[2]) }
            IN  IF M = {} THEN k = NoKey
                ELSE \E i \in M : /\ \A j \in M : i <= j
                                  /\ k = master_data[i].Key

\* C8 witness: a tile search looks up an index holding two matching entries,
\* the later one more recent and exactly at the query point, and the first
\* one's key is returned.
C8_Witness ==
    \E s \in Sessions, q \in QueryTerms, p \in QueryPoints :
        /\ pc[s] = "tile"
        /\ q = query[s] /\ p = << TileLat(s), TileLng(s) >>
        /\ \E i, j \in 1..Len(master_data) :
              /\ i < j
              /\ WithinTolerance(master_data[i], q, p[1], p[2])
              /\ WithinTolerance(master_data[j], q, p[1], p[2])
              /\ master_data[j].Latitude = p[1] /\ master_data[j].Longitude = p[2]
              /\ master_data[i].Latitude # p[1]
              /\ master_data[j].Time > master_data[i].Time
              /\ FindCachedKey(master_data, q, p[1], p[2]) = master_data[i].Key

\* C9 as stated: a tile search that leaves the save step of a non-empty
\* crawl has appended its entry.
C9_NonEmptyAlwaysAppended ==
    [][\A s \in Sessions :
          (InSave(s) /\ pc'[s] \notin SavePcs) => pc[s] = "save_index"]_vars

\* C9 amended: an empty crawl uploads nothing, appends nothing, leaves the
\* stored index alone and returns cached = FALSE; a non-empty crawl gets a
\* fresh key and, when its result upload succeeds, writes the index it read
\* extended by exactly one entry carrying that key; when the result upload
\* fails it appends nothing; nothing else changes the in-memory index.
C9_OnlyNonEmptyPersisted ==
    [][/\ \A s \in Sessions :
            /\ (pc[s] = "scrape" /\ pc'[s] # "scrape" /\ df_results'[s].rows = {}) =>
                  /\ pc'[s] \in {"tile", "finish"}
                  /\ ret'[s] = [df |-> df_results'[s], cached |-> FALSE]
                  /\ UNCHANGED << blobs, master_data, masterBlob, nextKey >>
            /\ (pc[s] = "scrape" /\ pc'[s] # "scrape" /\ df_results'[s].rows # {}) =>
                  /\ pc'[s] = "save_result"
                  /\ new_key'[s] = nextKey
                  /\ nextKey' = nextKey + 1
                  /\ new_key'[s] \notin KeysOf(master_data)
                  /\ \A t \in Sessions : new_key[t] # new_key'[s]
                  /\ blobs[new_key'[s]].kind = "absent"
            /\ (pc[s] = "save_result" /\ pc'[s] # "save_result") =>
                  /\ master_data' = master_data
                  /\ masterBlob' = masterBlob
                  /\ IF blobs'[new_key[s]].kind = "df"
                     THEN pc'[s] = "save_append"
                     ELSE pc'[s] \in {"tile", "finish"} /\ blobs' = blobs
            /\ (pc[s] = "save_append" /\ pc'[s] # "save_append") =>
                  /\ Len(master_data') = Len(read_index[s]) + 1
                  /\ IsPrefix(read_index[s], master_data')
                  /\ Last(master_data').Key = new_key[s]
                  /\ Last(master_data').Search = query[s]
                  /\ new_key[s] \notin KeysOf(read_index[s]) \cup KeysOf(master_data)
       /\ master_data' # master_data =>
            \E s \in Sessions : pc[s] = "save_append" /\ pc'[s] = "save_serialize"]_vars

\* C9 witness: a non-empty crawl's entry has just been appended
C9_Witness ==
    \E s \in Sessions :
        /\ pc[s] = "save_serialize"
        /\ df_results[s].rows # {}
        /\ master_data # <<>>
        /\ Last(master_data).Key = new_key[s]
        /\ blobs[new_key[s]] = df_results[s]

\* C10: search_places never propagates an exception to its caller.
C10_NeverRaises ==
    \A s \in Sessions : pc[s] # "raised"

\* C11: a tile that yields nothing or whose fetch fails does not stop the
\* crawl: a search_places call never ends in an error while no tile has
\* yielded a Place, it reaches the end of the loop only after every tile of
\* the grid was processed, and with nothing collected it returns the empty
\* frame.
C11_EmptyTilesDoNotStopCrawl ==
    [][\A s \in Sessions :
          /\ (started' # started /\ pc'[s] # pc[s]) => pc'[s] # "raised"
          /\ pc'[s] = "finish" => idx'[s] = NumTiles(s)
          /\ (pc[s] = "finish" /\ pc'[s] # "finish" /\ results_list[s] = <<>>) =>
                (pc'[s] = "returned" /\ out'[s].df = EmptyDF)]_vars

\* C12 as stated: whenever the browser raised anything other than a
\* navigation timeout during a scrape, the scrape returns an empty result.
C12_AnyExceptionGivesEmpty ==
    [][\A s \in Sessions :
          (pc[s] = "scrape" /\ pc'[s] # "scrape" /\ fault[s] \notin {"none", "nav_timeout"})
              => df_results'[s] = EmptyDF]_vars

\* C12 amended: scrape never raises to its caller; when the results container
\* does not appear, or the browser raises outside the steps that handle their
\* own exceptions, it returns the empty frame, which the tile search returns
\* with cached = FALSE; a navigation timeout, and an exception of the consent
\* click, of the scrolling or of one entry's extraction, does not end the
\* scrape: it goes on to its next step.
C12_ScrapeNeverRaises ==
    [][\A s \in Sessions :
          /\ pc[s] = "scrape" => pc'[s] # "raised"
          /\ (pc[s] = "scrape" /\ pc'[s] # "scrape" /\ fault[s] \in {"no_container", "error"}) =>
                /\ df_results'[s] = EmptyDF
                /\ pc'[s] \in {"tile", "finish"}
                /\ ret'[s] = [df |-> EmptyDF, cached |-> FALSE]
          /\ (fault'[s] # fault[s] /\ fault'[s] \in {"no_container", "error"}) =>
                (pc'[s] = "scrape" /\ stage'[s] = "caught")
          /\ (fault'[s] # fault[s] /\ fault'[s] \in {"nav_timeout", "click", "scroll", "entry"}) =>
                (pc'[s] = "scrape" /\ stage'[s] \in {"navigated", "consented", "scrolled", "extracted"})
          /\ (pc[s] = "scrape" /\ pc'[s] # "scrape" /\ df_results'[s].rows # {}) =>
                (stage[s] = "extracted" /\ fault[s] \notin {"no_container", "error"})]_vars

\* C12 witness: a scrape whose navigation timed out has gone on to extract
\* and has returned rows.
C12_Witness ==
    \E s \in Sessions :
        /\ pc[s] = "save_result"
        /\ fault[s] = "nav_timeout"
        /\ df_results[s].rows # {}

\* C13: within one search_places call the values given to the progress
\* callback never decrease and lie in [0, 1] (0 to 10 * num_tiles in tenths
\* of a tile), whatever the tiles do.
C13_ProgressMonotone ==
    [][\A s \in Sessions :
          (progress'[s] # progress[s] /\ started' = started /\ pc[s] # "finish") =>
              /\ progress'[s] >= progress[s]
              /\ progress'[s] >= 0
              /\ progress'[s] <= 10 * NumTiles(s)]_vars

\* C13 witness: a call over 9 tiles has reported 1.0 at its last tile after
\* cache-hit tiles, scraped tiles and tiles that gave nothing.
C13_Witness ==
    \E s \in Sessions :
        /\ pc[s] = "finish"
        /\ NumTiles(s) = 9
        /\ progress[s] = 10 * NumTiles(s)
        /\ ~all_cached[s]
        /\ Len(results_list[s]) \in 2..8
        /\ \E i \in 1..Len(results_list[s]) : results_list[s][i] = OldDF
        /\ nextKey > FirstNewKey

\* C14: a search_places call over a one-tile grid ends by reporting a flag,
\* and the flag is TRUE exactly when its tile was a cache hit; a tile that was
\* crawled, with rows or without, gives FALSE.
C14_AllCachedIffEveryTileHit ==
    [][\A s \in Sessions :
          (pc[s] = "finish" /\ pc'[s] # "finish" /\ NumTiles(s) = 1) =>
              /\ pc'[s] = "returned"
              /\ out'[s].cached = (lookup[s] = "hit")]_vars

\* C15: for grid_radius r >= 0 generate_lat_long_grid returns exactly
\* (2r+1)^2 points, the point for outer index i and inner index j (each from
\* -r to r) standing at place (i + r) * (2r+1) + (j + r) + 1 and being
\* center + (i * lat_step, j * lon_step); the centre is among them, r = 0
\* gives the centre alone, and a repeated call gives the same sequence.
C15_GridRowMajor ==
    \A c \in 1..Len(output) :
        LET r == input.grid_radius
            w == 2 * r + 1
            g == output[c]
        IN  r >= 0 =>
              /\ Len(g) = w * w
              /\ \A i \in (-r)..r, j \in (-r)..r :
                    g[(i + r) * w + (j + r) + 1] =
                        << input.center_lat + i * input.lat_step,
                           input.center_lon + j * input.lon_step >>
              /\ \E n \in 1..Len(g) : g[n] = << input.center_lat, input.center_lon >>
              /\ r = 0 => g = << << input.center_lat, input.center_lon >> >>
              /\ g = output[1]

\* C15 witness: a 5 x 5 grid with different latitude and longitude steps was
\* generated twice.
C15_Witness ==
    /\ Len(output) = 2
    /\ input.grid_radius = 2
    /\ input.lat_step = 22 /\ input.lon_step = 64
    /\ Len(output[1]) = 25
    /\ output[1][2] = << input.center_lat - 44, input.center_lon - 64 >>

\* C16: the scorer's output holds no two records that agree on description,
\* rating, raters, latitude and longitude, and holds exactly one record for
\* each such key of the input: equal keys collapse, records differing in any
\* of the five fields are all kept.
C16_ExactDedup ==
    \A c \in 1..Len(output) :
        LET o == output[c]
        IN  /\ \A i, j \in 1..Len(o) : i # j => DedupKey(o[i]) # DedupKey(o[j])
            /\ \A i \in 1..Len(input) :
                  Cardinality({ j \in 1..Len(o) : DedupKey(o[j]) = DedupKey(input[i]) }) = 1
            /\ Len(o) = Cardinality({ DedupKey(input[i]) : i \in 1..Len(input) })

\* C16 witness: two sightings of one place with different price and link,
\* and a place differing from them in latitude only, were scored: two records.
C16_Witness ==
    /\ Len(output) >= 1
    /\ Len(input) = 3
    /\ DedupKey(input[1]) = DedupKey(input[2])
    /\ input[1].price # input[2].price
    /\ input[3].latitude # input[1].latitude
    /\ input[3].description = input[1].description
    /\ Len(output[1]) = 2

\* C17: every scored record has vfm >= 0 and composite >= 0, none is the
\* result of a division by zero, and when the median scaled_rating of the set
\* is not above 0 every record has vfm = 0 and composite = 0.
C17_ScoresNonNegative ==
    \A c \in 1..Len(output) :
        LET o == output[c]
        IN  /\ \A i \in 1..Len(o) :
                  o[i].vfm # NaN /\ o[i].composite # NaN /\ o[i].vfm >= 0 /\ o[i].composite >= 0
            /\ (o # <<>> /\ Median2([i \in 1..Len(o) |-> o[i].scaled_rating]) <= 0) =>
                  \A i \in 1..Len(o) : o[i].vfm = 0 /\ o[i].composite = 0

\* C17 witness: a set holding a place with no raters and price 0 was scored
\* with positive medians: that place scores 0, another scores above 0.
C17_Witness ==
    /\ Len(output) >= 1
    /\ \E i \in 1..Len(input) : input[i].raters = 0 /\ input[i].price = 0
    /\ \E i \in 1..Len(output[1]) :
          output[1][i].raters = 0 /\ output[1][i].vfm = 0 /\ output[1][i].price = 1
    /\ \E i \in 1..Len(output[1]) : output[1][i].vfm > 0 /\ output[1][i].composite > 0

\* C18: for every scored record, no raters gives scaled_rating 0, scaled_rating
\* lies between 0 and the rating, and of two records with the same rating the
\* one with at least as many raters has at least as high a scaled_rating.
C18_ScaledRating ==
    \A c \in 1..Len(output) :
        LET o == output[c]
        IN  \A i \in 1..Len(o) :
              /\ o[i].raters = 0 => o[i].scaled_rating = 0
              /\ o[i].scaled_rating >= 0
              /\ o[i].scaled_rating <= o[i].rating * 1000
              /\ \A j \in 1..Len(o) :
                    (o[j].rating = o[i].rating /\ o[j].raters >= o[i].raters) =>
                        o[j].scaled_rating >= o[i].scaled_rating

\* C18 witness: two places rated 4.5, one with 3 raters and one with 400,
\* were scored: the second has the higher scaled_rating, below 4.5.
C18_Witness ==
    /\ Len(output) >= 1
    /\ Len(output[1]) = 2
    /\ output[1][1].rating = 45 /\ output[1][2].rating = 45
    /\ output[1][1].raters = 3 /\ output[1][2].raters = 400
    /\ output[1][1].scaled_rating > 0
    /\ output[1][1].scaled_rating < output[1][2].scaled_rating
    /\ output[1][2].scaled_rating < 45000

\* the entry has a name: its aria-label is there and not empty
Named(entry) == entry.label.present /\ entry.label.chars # <<>>
\* the text holds a rating and a count that both parse
RatingPairParses(s) ==
    /\ RatingStarts(s) # {}
    /\ LET m == SetMin(RatingCountAt(s, RatingOpen(s, SetMin(RatingStarts(s)))))
       IN  Only(SubSeq(s, m, RunEnd(s, m, CountChars)), Digits) # <<>>
\* the link holds a latitude and a longitude that both parse
CoordsPairParses(href) ==
    /\ href.present
    /\ CoordsStarts(href.chars) # {}
    /\ ParseFloat(CoordsGroups(href.chars)[1]).ok
    /\ ParseFloat(CoordsGroups(href.chars)[2]).ok

\* C19: for an entry whose text can be read, _extract_place_data returns
\* None exactly when the entry has no name, whatever its rating text, price
\* text and link are; and a rating/raters pair that does not parse gives
\* rating 0.0 and raters 0.
C19_SkipIffNoName ==
    \A c \in 1..Len(output) :
        ~input.entry.text_raises =>
            /\ (output[c] = <<>>) <=> ~Named(input.entry)
            /\ (output[c] # <<>> /\ ~RatingPairParses(input.entry.text)) =>
                  (output[c][1].rating = 0 /\ output[c][1].raters = 0)

\* C20: an extracted Place carries the latitude and longitude of the link
\* when the link holds a pair that parses, and the fallback pair (the tile
\* centre) when the link is absent or holds no such pair.
C20_CoordinateFallback ==
    \A c \in 1..Len(output) :
        output[c] # <<>> =>
            << output[c][1].latitude, output[c][1].longitude >> =
                IF CoordsPairParses(input.entry.href)
                THEN << ParseFloat(CoordsGroups(input.entry.href.chars)[1]).val,
                        ParseFloat(CoordsGroups(input.entry.href.chars)[2]).val >>
                ELSE input.default

\* The entries the index held when the service was built (their keys are
\* the stored ones), and whether any of them matches a tile of the grid of
\* the call of s.
MatchesSomeTile(s, e) ==
    \E n \in 1..NumTiles(s) : Matches(e, query[s], Coords(s)[n][1], Coords(s)[n][2])
NoMatchAtStart(s) ==
    \A i \in 1..Len(master_data) :
        master_data[i].Key < FirstNewKey => ~MatchesSomeTile(s, master_data[i])

\* C21: in the first search_places call of a service, made without
\* force_refresh while the index held no entry matching any tile of the grid,
\* no tile is answered from the cache and the scraper has been called once
\* for every tile processed so far, so once per tile of the grid at the end of
\* the loop.
C21_EveryTileFetchedOnce ==
    \A s \in CrawlSessions :
        (pc[s] \in {"tile", "finish"} /\ ~force[s] /\ NoMatchAtStart(s)) =>
            /\ lookup[s] # "hit"
            /\ scrapes[s] = idx[s]
            /\ pc[s] = "finish" => scrapes[s] = NumTiles(s)

\* C22: during a search_places call over a grid of several tiles the
\* in-memory index changes only once every tile of the call has been
\* crawled, that is, not before the call is at its last tile.
C22_IndexUnchangedDuringCrawl ==
    [][\A s \in CrawlSessions :
          (pc[s] \notin {"idle", "returned", "raised"} /\ NumTiles(s) > 1
             /\ master_data' # master_data) =>
              idx[s] + 1 = NumTiles(s)]_vars

\* C23: when the k-th tile of a search over N tiles finishes, whether by a
\* cache hit or by a scrape that gave rows, nothing or failed, the last
\* value given to the progress callback is k/N (10 * k tenths of a tile), so
\* a search whose loop has ended has last reported 1.
C23_ProgressAfterTile ==
    [][\A s \in CrawlSessions :
          /\ idx'[s] = idx[s] + 1 => progress'[s] = 10 * idx'[s]
          /\ pc'[s] = "finish" => progress'[s] = 10 * NumTiles(s)]_vars

\* a list reordered by a permutation of its positions, and what an output
\* record says about a place
Reordered(xs, f) == [i \in 1..Len(xs) |-> xs[f[i]]]
Scores(df) ==
    { << DedupKey(df[i]), df[i].price, df[i].scaled_rating, df[i].vfm, df[i].composite >> :
          i \in 1..Len(df) }

\* C24: the scorer is order-independent: scoring any reordering of the same
\* places gives the same set of records, with the same price, scaled_rating,
\* vfm and composite for each.
C24_ScorerOrderIndependent ==
    \A c \in 1..Len(output) :
        \A f \in Permutations(1..Len(input)) :
            Scores(ProcessResults(Reordered(input, f))) = Scores(output[c])

\* A term trimmed, lowercased and with every run of whitespace made one
\* space: two terms differ only in case, in leading or trailing whitespace or
\* in the length of internal whitespace runs when these forms are equal.
RECURSIVE CollapseSpaces(_)
CollapseSpaces(t) ==
    IF Len(t) < 2 THEN t
    ELSE IF IsSpace(t[1]) /\ IsSpace(t[2]) THEN CollapseSpaces(Tail(t))
    ELSE << t[1] >> \o CollapseSpaces(Tail(t))
SameTerm(t, u) ==
    CollapseSpaces(Strip([i \in 1..Len(t) |-> Lower(t[i])])) =
        CollapseSpaces(Strip([i \in 1..Len(u) |-> Lower(u[i])]))

\* C25: terms that differ only in letter case, in leading or trailing
\* whitespace or in the length of internal whitespace runs normalise to the
\* same search key, and normalising a normalised term leaves it unchanged.
C25_NormalizeCollapses ==
    \A c \in 1..Len(output) :
        /\ \A u \in TermInputs : SameTerm(u, input) => NormalizeTerm(u) = output[c]
        /\ NormalizeTerm(output[c]) = output[c]

\* C26: once the caller has asked for the search to stop, that search starts
\* no further tile fetch: no tile goes on to the scraper.
C26_NoFetchAfterCancel ==
    [][\A s \in CrawlSessions :
          (cancel[s] /\ pc[s] = "tile") => pc'[s] # "scrape"]_vars

\* the place of the input that a scored record comes from: the first one
\* with its key
FirstWithKey(places, key) ==
    places[SetMin({ j \in 1..Len(places) : DedupKey(places[j]) = key })]

C28_AppendedEntriesAreStored ==
    [][/\ \A i \in 1..Len(master_data') :
              master_data'[i].Key >= FirstNewKey =>
                  /\ blobs'[master_data'[i].Key].kind = "df"
                  /\ blobs'[master_data'[i].Key].rows # {}
       /\ \A s \in Sessions :
              (pc[s] = "save_append" /\ pc'[s] # "save_append") =>
                  /\ master_data' = Append(read_index[s], NewEntry(s))
                  /\ blobs[new_key[s]] = df_results[s]
       /\ \A s \in Sessions :
              (pc[s] = "save_result" /\ pc'[s] \notin {"save_result", "save_append"}) =>
                  /\ UNCHANGED << master_data, masterBlob, blobs >>
                  /\ new_key[s] \notin KeysOf(master_data')
                  /\ ret'[s] = [df |-> df_results[s], cached |-> FALSE]]_vars

\* C28 witness: one crawl has stored its rows and appended its entry, another
\* has lost its result upload: its key is in no entry and holds no blob.
C28_Witness ==
    /\ NoSaveInProgress
    /\ \E k \in FirstNewKey..(nextKey - 1) :
          k \in KeysOf(master_data) /\ blobs[k].kind = "df"
    /\ \E k \in FirstNewKey..(nextKey - 1) :
          k \notin KeysOf(master_data) /\ blobs[k].kind = "absent"

\* the entries of the index blob in storage
Persisted(blob) == { blob.entries[i] : i \in 1..Len(blob.entries) }

\* C29: an entry that is in the persisted index stays in it: no step of the
\* service, whatever the startup load of the index gave, writes an index blob
\* that lacks an entry the blob held.
C29_PersistedEntriesKept ==
    [][Persisted(masterBlob) \subseteq Persisted(masterBlob')]_vars

\* C30: a tile search served from the cache (the tile returns straight from
\* the lookup) writes nothing to storage and leaves the in-memory index as it
\* was: it returns the stored set it read, which is valid, with cached = TRUE,
\* calls no scraper, generates no key, and reports 1.0 for its tile.
C30_CacheHitChangesNothing ==
    [][\A s \in Sessions :
          (pc[s] = "tile" /\ idx'[s] = idx[s] + 1) =>
              /\ UNCHANGED << master_data, masterBlob, blobs, nextKey >>
              /\ \E k \in KeysOf(master_data) :
                    /\ ret'[s] = [df |-> blobs[k], cached |-> TRUE]
                    /\ ValidateDataframe(blobs[k])
              /\ scrapes'[s] = scrapes[s]
              /\ progress'[s] = 10 * (idx[s] + 1)
              /\ \A o \in Sessions \ {s} : progress'[o] = progress[o]]_vars

\* C30 witness: a tile has just been served from the cache while the index
\* holds entries and no scrape was made for it.
C30_Witness ==
    \E s \in Sessions :
        /\ pc[s] = "finish"
        /\ lookup[s] = "hit"
        /\ ret[s].cached /\ ret[s].df = OldDF
        /\ scrapes[s] = 0
        /\ progress[s] = 10
        /\ master_data # <<>>
====
